---- MODULE Spec2Model ----
(***************************************************************************)
(* X-Ray decision-trail tracking (xray/core.py) and storage                *)
(* (xray/storage.py).                                                      *)
(*                                                                         *)
(* Python values are encoded as follows.                                   *)
(*   None            the empty tuple <<>>; an Optional value x is <<x>>    *)
(*   dict            a set of <<key, value>> pairs, {} the empty dict      *)
(*   list            a sequence                                            *)
(*   str (ISO time)  a sequence of character codes, compared as Python     *)
(*                   compares strings (code point by code point)           *)
(*   payload item    [type, v]: a JSON object ("dict"), a tuple, or an     *)
(*                   object json cannot encode ("object"), or one that     *)
(*                   cannot even be copied ("lock")                        *)
(* A metadata dict is an object that add_candidates mutates in place, so   *)
(* it is either owned by its holder ([ref |-> FALSE, val |-> d]) or the    *)
(* caller's dict object, shared by reference ([ref |-> TRUE]), whose       *)
(* content is the variable callerDict.                                     *)
(***************************************************************************)
EXTENDS Naturals, Sequences, FiniteSets, TLC

VARIABLES
    ctx,          \* the live XRayContext: execution_id, metadata, steps, created_at, current_step
    inScope,      \* the caller is inside "with ctx:"
    callerDict,   \* content of the caller's dict object passed as metadata=
    clock,        \* the wall clock datetime.now() reads
    filter_calls, \* history: per step, the add_filter calls made while it was open
    storages,     \* the XRayStorage instances: storage_path, in_memory
    files,        \* the durable location: its *.json files, [name (the stem), content]
    default_storage, \* the module global _default_storage: 0 (None) or an index of storages
    writers,      \* the save calls in flight, one per thread: the line each has reached
    last          \* the last operation: op, open (the open step it found), res (ok or the
                  \* exception), val (returned)

ctxVars == <<ctx, inScope, callerDict, filter_calls>>
storeVars == <<storages, files>>
procVars == <<default_storage, writers>>
vars == <<ctx, inScope, callerDict, clock, filter_calls, storages, files,
          default_storage, writers, last>>

\* ------------------------------------------------------------------ bounds

MaxSteps == 2
MaxFilters == 2
MaxClock == 2
MaxListStorages == 1
MaxListTrails == 3
MaxStoreSteps == 1
MaxStoreStorages == 2
MaxStoreTrails == 1
MaxPayloadFilters == 1
MaxRegStorages == 3
MaxRegTrails == 2

\* ------------------------------------------------------------ Python values

None == <<>>
Some(x) == <<x>>

Own(d) == [ref |-> FALSE, val |-> d]
Shared == [ref |-> TRUE, val |-> {}]

\* the content of a metadata dict object
DictValue(m, cd) == IF m.ref THEN cd ELSE m.val

\* d[k] = v on a dict
DictSet(d, k, v) == {p \in d : p[1] # k} \cup {<<k, v>>}

\* "metadata or {}": the argument when it is a non-empty dict, else a new dict
OrEmptyMeta(arg, cd) ==
    IF arg = None THEN Own({})
    ELSE IF DictValue(arg[1], cd) = {} THEN Own({})
    ELSE arg[1]

\* "inputs or {}"
OrEmptyDict(arg) == IF arg = None THEN {} ELSE arg[1]

\* truthiness of an Optional[str] / Optional[dict] / Optional[int] argument
TruthyStr(arg) == arg # None /\ arg[1] # ""
TruthyDict(arg) == arg # None /\ arg[1] # {}
TruthyInt(arg) == arg # None /\ arg[1] # 0

\* uuid.uuid4(): an identifier distinct from every identifier in use and
\* from every identifier a caller supplies (identifiers are numbers here:
\* 0 is the empty string, 1.. are caller-supplied, 101.. are generated)
uuid4(used) == CHOOSE n \in 101..(101 + Cardinality(used)) :
    n \notin used /\ \A m \in 101..(n - 1) : m \in used

\* datetime.now(): the instant of the current clock tick; every second
\* tick falls on a whole second (microsecond 0)
now(tick) == [second |-> 9 + (tick \div 2), microsecond |-> (tick % 2) * 5]

\* the character of a decimal digit
Digit(d) == 48 + d

\* datetime.isoformat(): zero-padded fields, the fraction left out when the
\* microsecond is 0
isoformat(dt) ==
    <<Digit(dt.second \div 10), Digit(dt.second % 10)>>
        \o (IF dt.microsecond = 0 THEN <<>> ELSE <<46, Digit(dt.microsecond)>>)

\* Python's str < str
StrLess(a, b) ==
    \E i \in 1..(Len(b)) :
        /\ \A j \in 1..(i - 1) : j <= Len(a) /\ a[j] = b[j]
        /\ (i > Len(a) \/ a[i] < b[i])

\* ------------------------------------------------------------- xray/core.py

\* DecisionStep(step_id, step_name, timestamp, inputs, metadata) with the
\* dataclass defaults for the other fields
DecisionStep(step_id, step_name, timestamp, inputs, metadata) ==
    [step_id |-> step_id, step_name |-> step_name, timestamp |-> timestamp,
     inputs |-> inputs, candidates |-> <<>>, filters_applied |-> <<>>,
     outcomes |-> {}, reasoning |-> None, metadata |-> metadata]

\* XRayContext.__init__
XRayContext(execution_id, metadata, used, cd, tick) ==
    [execution_id |-> IF execution_id = None \/ execution_id[1] = 0
                      THEN uuid4(used) ELSE execution_id[1],
     metadata |-> OrEmptyMeta(metadata, cd),
     steps |-> <<>>,
     created_at |-> now(tick),
     current_step |-> 0]

\* a start_step that puts the new step first
start_step_prepend(c, step_name, inputs, metadata, cd, tick) ==
    LET step_id == uuid4({c.steps[i].step_id : i \in 1..Len(c.steps)})
        step == DecisionStep(step_id, step_name, now(tick),
                             OrEmptyDict(inputs), OrEmptyMeta(metadata, cd))
    IN [res |-> "ok", val |-> Some(step_id), cd |-> cd,
        ctx |-> [c EXCEPT !.steps = <<step>> \o @,
                          !.current_step = Len(c.steps) + 1]]

\* a start_step that leaves an open step open
start_step_keeps_open(c, step_name, inputs, metadata, cd, tick) ==
    LET step_id == uuid4({c.steps[i].step_id : i \in 1..Len(c.steps)})
        step == DecisionStep(step_id, step_name, now(tick),
                             OrEmptyDict(inputs), OrEmptyMeta(metadata, cd))
    IN [res |-> "ok", val |-> Some(step_id), cd |-> cd,
        ctx |-> [c EXCEPT !.steps = Append(@, step),
                          !.current_step = IF @ # 0 THEN @ ELSE Len(c.steps) + 1]]

\* a failure raised after the steps were dropped
NoActiveStep_drops(c, cd) ==
    [res |-> "ValueError", val |-> None, cd |-> cd, ctx |-> [c EXCEPT !.steps = <<>>]]

\* XRayContext.start_step: the new step is appended and becomes the open step
start_step(c, step_name, inputs, metadata, cd, tick) ==
    LET step_id == uuid4({c.steps[i].step_id : i \in 1..Len(c.steps)})
        step == DecisionStep(step_id, step_name, now(tick),
                             OrEmptyDict(inputs), OrEmptyMeta(metadata, cd))
    IN [res |-> "ok", val |-> Some(step_id), cd |-> cd,
        ctx |-> [c EXCEPT !.steps = Append(@, step),
                          !.current_step = Len(c.steps) + 1]]

NoActiveStep(c, cd) == [res |-> "ValueError", val |-> None, cd |-> cd, ctx |-> c]

\* add_candidates extending the list instead of replacing it
add_candidates_extend(c, candidates, description, cd) ==
    IF c.current_step = 0 THEN [res |-> "ValueError", val |-> None, cd |-> cd, ctx |-> c]
    ELSE [res |-> "ok", val |-> None, cd |-> cd,
          ctx |-> [c EXCEPT !.steps[c.current_step].candidates = @ \o candidates]]

\* XRayContext.add_candidates
add_candidates(c, candidates, description, cd) ==
    IF c.current_step = 0 THEN NoActiveStep(c, cd)
    ELSE LET i == c.current_step
             m == c.steps[i].metadata
             d == <<"candidates_description", description[1]>>
         IN [res |-> "ok", val |-> None,
             cd |-> IF TruthyStr(description) /\ m.ref
                    THEN DictSet(cd, d[1], d[2]) ELSE cd,
             ctx |-> [c EXCEPT
                 !.steps[i].candidates = candidates,
                 !.steps[i].metadata =
                     IF TruthyStr(description) /\ ~m.ref
                     THEN Own(DictSet(m.val, d[1], d[2])) ELSE m]]

\* the filter_record dict of add_filter
filter_record(f) ==
    [name |-> f.filter_name, config |-> f.filter_config,
     passed_count |-> Len(f.passed), rejected_count |-> Len(f.rejected),
     passed |-> f.passed, rejected |-> f.rejected, reasoning |-> f.reasoning]

\* add_filter without the check for an open step
add_filter_unguarded(c, f, cd) ==
    [res |-> "ok", val |-> None, cd |-> cd,
     ctx |-> IF c.current_step = 0 THEN c
             ELSE [c EXCEPT !.steps[c.current_step].filters_applied =
                                Append(@, [name |-> f.filter_name])]]

\* add_filter putting the new record first
add_filter_prepend(c, f, cd) ==
    IF c.current_step = 0 THEN [res |-> "ValueError", val |-> None, cd |-> cd, ctx |-> c]
    ELSE [res |-> "ok", val |-> None, cd |-> cd,
          ctx |-> [c EXCEPT !.steps[c.current_step].filters_applied =
                       <<[name |-> f.filter_name, config |-> f.filter_config,
                          passed_count |-> Len(f.passed),
                          rejected_count |-> Len(f.rejected),
                          passed |-> f.passed, rejected |-> f.rejected,
                          reasoning |-> f.reasoning]>> \o @]]

\* XRayContext.add_filter
add_filter(c, f, cd) ==
    IF c.current_step = 0 THEN NoActiveStep(c, cd)
    ELSE [res |-> "ok", val |-> None, cd |-> cd,
          ctx |-> [c EXCEPT !.steps[c.current_step].filters_applied =
                                Append(@, filter_record(f))]]

\* a complete_step that stores whatever is supplied, empty or not
complete_step_overwrites(c, outcomes, reasoning, cd) ==
    IF c.current_step = 0 THEN NoActiveStep(c, cd)
    ELSE LET i == c.current_step
         IN [res |-> "ok", val |-> None, cd |-> cd,
             ctx |-> [c EXCEPT
                 !.steps[i].outcomes = IF outcomes # None THEN outcomes[1] ELSE @,
                 !.steps[i].reasoning = IF reasoning # None THEN reasoning ELSE @,
                 !.current_step = 0]]

\* XRayContext.complete_step
complete_step(c, outcomes, reasoning, cd) ==
    IF c.current_step = 0 THEN NoActiveStep(c, cd)
    ELSE LET i == c.current_step
         IN [res |-> "ok", val |-> None, cd |-> cd,
             ctx |-> [c EXCEPT
                 !.steps[i].outcomes = IF TruthyDict(outcomes) THEN outcomes[1] ELSE @,
                 !.steps[i].reasoning = IF TruthyStr(reasoning) THEN reasoning ELSE @,
                 !.current_step = 0]]

\* __exit__ leaving the open step as it is
exit_keeps_open(c, cd) == [res |-> "ok", val |-> None, cd |-> cd, ctx |-> c]

\* XRayContext.__exit__: returns None, so an exception keeps propagating
exit(c, cd) ==
    IF c.current_step # 0 THEN complete_step(c, None, None, cd)
    ELSE [res |-> "ok", val |-> None, cd |-> cd, ctx |-> c]

\* DecisionStep.to_dict: asdict copies the step deeply, the timestamp
\* becomes its ISO string
\* copy.deepcopy, which dataclasses.asdict applies to every payload value,
\* raises TypeError on a lock, a generator, an open file
Copyable(item) == item.type # "lock"

\* asdict(self) in DecisionStep.to_dict raises
asdict_raises(step) ==
    \/ \E i \in 1..Len(step.candidates) : ~Copyable(step.candidates[i])
    \/ \E j \in 1..Len(step.filters_applied) :
           \/ \E i \in 1..Len(step.filters_applied[j].passed) :
                  ~Copyable(step.filters_applied[j].passed[i])
           \/ \E i \in 1..Len(step.filters_applied[j].rejected) :
                  ~Copyable(step.filters_applied[j].rejected[i])

\* XRayContext.get_trail raises: some step's to_dict does
get_trail_raises(c) == \E i \in 1..Len(c.steps) : asdict_raises(c.steps[i])

to_dict(step, cd) ==
    [step EXCEPT !.timestamp = isoformat(@), !.metadata = DictValue(@, cd)]

\* a get_trail that serializes the steps latest first
get_trail_reversed(c, cd) ==
    [execution_id |-> c.execution_id,
     created_at |-> isoformat(c.created_at),
     metadata |-> c.metadata,
     steps |-> [i \in 1..Len(c.steps) |-> to_dict(c.steps[Len(c.steps) + 1 - i], cd)],
     total_steps |-> Len(c.steps)]

\* XRayContext.get_trail: metadata is the context's own dict object, not a copy
get_trail(c, cd) ==
    [execution_id |-> c.execution_id,
     created_at |-> isoformat(c.created_at),
     metadata |-> c.metadata,
     steps |-> [i \in 1..Len(c.steps) |-> to_dict(c.steps[i], cd)],
     total_steps |-> Len(c.steps)]

\* a Trail whose steps hold the caller's metadata dict itself, as a copy
\* of the step that is not deep would
TrailValue_shallow(trail, cd) ==
    [trail EXCEPT !.metadata = DictValue(@, cd),
                  !.steps = [i \in 1..Len(@) |-> [@[i] EXCEPT !.metadata = cd]]]

\* a Trail as its reader sees it: the metadata object's content read now
TrailValue(trail, cd) == [trail EXCEPT !.metadata = DictValue(@, cd)]

\* ---------------------------------------------------------- xray/storage.py

\* json.dump(..., default=str) followed by json.load, on one payload item: a
\* tuple comes back as a list, an object json cannot encode as its str()
json_item(item) ==
    CASE item.type = "tuple" -> [type |-> "list", v |-> item.v]
      [] item.type = "object" -> [type |-> "str", v |-> item.v]
      [] OTHER -> item

json_items(items) == [i \in 1..Len(items) |-> json_item(items[i])]

json_filter(f) ==
    [f EXCEPT !.passed = json_items(@), !.rejected = json_items(@)]

json_step(step) ==
    [step EXCEPT !.candidates = json_items(@),
                 !.filters_applied = [i \in 1..Len(@) |-> json_filter(@[i])]]

\* the document json.dump(trail, f, indent=2, default=str) writes, as
\* json.load reads it back
json_dump(trail, cd) ==
    [TrailValue(trail, cd) EXCEPT !.steps = [i \in 1..Len(@) |-> json_step(@[i])]]

\* XRayStorage.__init__: Path(storage_path) if storage_path else None
XRayStorage(storage_path) ==
    [storage_path |-> IF TruthyStr(storage_path) THEN storage_path ELSE None,
     in_memory |-> <<>>]

\* execution_id in self._in_memory
MemHas(mem, id) == \E i \in 1..Len(mem) : mem[i].key = id

\* self._in_memory[execution_id]
MemGet(mem, id) == mem[CHOOSE i \in 1..Len(mem) : mem[i].key = id].trail

\* self._in_memory[execution_id] = trail (a dict keeps insertion order)
MemPut(mem, id, trail) ==
    IF MemHas(mem, id)
    THEN [i \in 1..Len(mem) |-> IF mem[i].key = id THEN [key |-> id, trail |-> trail]
                                                   ELSE mem[i]]
    ELSE Append(mem, [key |-> id, trail |-> trail])

\* file_path.exists()
FileExists(fs, id) == \E f \in fs : f.name = id

FileContent(fs, id) == (CHOOSE f \in fs : f.name = id).content

\* open(file_path, 'w') and the write
FileWrite(fs, id, content) ==
    {f \in fs : f.name # id} \cup {[name |-> id, content |-> content]}

\* storage_path.glob("*.json"): the files in some order of the directory's
Glob(fs) ==
    {g \in [1..Cardinality(fs) -> fs] : \A i, j \in DOMAIN g : g[i] = g[j] => i = j}

Parseable(doc) == [ok |-> TRUE, doc |-> doc]
Unparseable == [ok |-> FALSE, doc |-> None]

\* a save that keeps the Trail in one tier only: the file where there is a
\* durable location, the in-memory mapping where there is none
save_one_tier(st, fs, c, cd) ==
    LET trail == get_trail(c, cd)
        execution_id == trail.execution_id
    IN [res |-> "ok", val |-> None,
        storage |-> IF st.storage_path # None THEN st
                    ELSE [st EXCEPT !.in_memory = MemPut(@, execution_id, trail)],
        files |-> IF st.storage_path # None
                  THEN FileWrite(fs, execution_id, Parseable(json_dump(trail, cd)))
                  ELSE fs]

\* XRayStorage.save
save(st, fs, c, cd) ==
    LET trail == get_trail(c, cd)
        execution_id == trail.execution_id
    IN IF get_trail_raises(c)
       THEN [res |-> "TypeError", val |-> None, storage |-> st, files |-> fs]
       ELSE [res |-> "ok", val |-> None,
             storage |-> [st EXCEPT !.in_memory = MemPut(@, execution_id, trail)],
             files |-> IF st.storage_path # None
                       THEN FileWrite(fs, execution_id, Parseable(json_dump(trail, cd)))
                       ELSE fs]

\* a get that looks in the in-memory mapping only
get_memory_only(st, fs, execution_id, cd) ==
    IF MemHas(st.in_memory, execution_id)
    THEN [res |-> "ok", val |-> Some(TrailValue(MemGet(st.in_memory, execution_id), cd))]
    ELSE [res |-> "ok", val |-> None]

\* a get that opens the file without asking whether it exists
get_no_exists(st, fs, execution_id, cd) ==
    IF MemHas(st.in_memory, execution_id)
    THEN [res |-> "ok", val |-> Some(TrailValue(MemGet(st.in_memory, execution_id), cd))]
    ELSE IF st.storage_path # None
    THEN IF ~FileExists(fs, execution_id)
         THEN [res |-> "FileNotFoundError", val |-> None]
         ELSE IF FileContent(fs, execution_id).ok
         THEN [res |-> "ok", val |-> Some(FileContent(fs, execution_id).doc)]
         ELSE [res |-> "JSONDecodeError", val |-> None]
    ELSE [res |-> "ok", val |-> None]

\* a get that treats a file it cannot parse as list_all does
get_swallow(st, fs, execution_id, cd) ==
    IF MemHas(st.in_memory, execution_id)
    THEN [res |-> "ok", val |-> Some(TrailValue(MemGet(st.in_memory, execution_id), cd))]
    ELSE IF st.storage_path # None /\ FileExists(fs, execution_id)
              /\ FileContent(fs, execution_id).ok
    THEN [res |-> "ok", val |-> Some(FileContent(fs, execution_id).doc)]
    ELSE [res |-> "ok", val |-> None]

\* a get that reads the file before the in-memory mapping
get_disk_first(st, fs, execution_id, cd) ==
    IF st.storage_path # None /\ FileExists(fs, execution_id)
    THEN IF FileContent(fs, execution_id).ok
         THEN [res |-> "ok", val |-> Some(FileContent(fs, execution_id).doc)]
         ELSE [res |-> "JSONDecodeError", val |-> None]
    ELSE IF MemHas(st.in_memory, execution_id)
    THEN [res |-> "ok", val |-> Some(TrailValue(MemGet(st.in_memory, execution_id), cd))]
    ELSE [res |-> "ok", val |-> None]

\* XRayStorage.get
get(st, fs, execution_id, cd) ==
    IF MemHas(st.in_memory, execution_id)
    THEN [res |-> "ok", val |-> Some(TrailValue(MemGet(st.in_memory, execution_id), cd))]
    ELSE IF st.storage_path # None /\ FileExists(fs, execution_id)
    THEN IF FileContent(fs, execution_id).ok
         THEN [res |-> "ok", val |-> Some(FileContent(fs, execution_id).doc)]
         ELSE [res |-> "JSONDecodeError", val |-> None]
    ELSE [res |-> "ok", val |-> None]

\* the sort without reverse=True: oldest first
InsertAsc(sorted, x) ==
    LET k == Cardinality({i \in 1..Len(sorted) :
                 ~StrLess(x.created_at, sorted[i].created_at)})
    IN SubSeq(sorted, 1, k) \o <<x>> \o SubSeq(sorted, k + 1, Len(sorted))

\* list.sort(key=created_at, reverse=True) on one more element: the sort is
\* stable, so x goes behind every element whose key is not smaller
InsertDesc(sorted, x) ==
    LET k == Cardinality({i \in 1..Len(sorted) :
                 ~StrLess(sorted[i].created_at, x.created_at)})
    IN SubSeq(sorted, 1, k) \o <<x>> \o SubSeq(sorted, k + 1, Len(sorted))

RECURSIVE SortDesc(_)
SortDesc(trails) ==
    IF trails = <<>> THEN <<>>
    ELSE InsertDesc(SortDesc(SubSeq(trails, 1, Len(trails) - 1)), trails[Len(trails)])

\* the scan without the check against the in-memory keys
RECURSIVE FromFilesAll(_, _)
FromFilesAll(mem, glob) ==
    IF glob = <<>> THEN <<>>
    ELSE (IF Head(glob).content.ok THEN <<Head(glob).content.doc>> ELSE <<>>)
             \o FromFilesAll(mem, Tail(glob))

\* a scan that ends at the first file that does not parse
RECURSIVE FromFilesStop(_, _)
FromFilesStop(mem, glob) ==
    IF glob = <<>> THEN <<>>
    ELSE IF MemHas(mem, Head(glob).name) THEN FromFilesStop(mem, Tail(glob))
    ELSE IF Head(glob).content.ok
    THEN <<Head(glob).content.doc>> \o FromFilesStop(mem, Tail(glob))
    ELSE <<>>

\* the trails list_all reads from the durable location, scanned in the
\* order glob: the files whose stem is not a key of the in-memory mapping
\* and that parse
RECURSIVE FromFiles(_, _)
FromFiles(mem, glob) ==
    IF glob = <<>> THEN <<>>
    ELSE (IF ~MemHas(mem, Head(glob).name) /\ Head(glob).content.ok
          THEN <<Head(glob).content.doc>> ELSE <<>>) \o FromFiles(mem, Tail(glob))

\* trails[:limit], limit >= 0
Truncate(trails, limit) ==
    SubSeq(trails, 1, IF limit < Len(trails) THEN limit ELSE Len(trails))

\* XRayStorage.list_all, the directory scan yielding glob
list_all(st, glob, limit, cd) ==
    LET mem == st.in_memory
        trails == [i \in 1..Len(mem) |-> TrailValue(mem[i].trail, cd)]
                      \o (IF st.storage_path # None THEN FromFiles(mem, glob) ELSE <<>>)
        sorted == SortDesc(trails)
    IN [res |-> "ok",
        val |-> IF TruthyInt(limit) THEN Truncate(sorted, limit[1]) ELSE sorted]

\* a clear that leaves the files
clear_memory_only(st, fs) ==
    [res |-> "ok", val |-> None,
     storage |-> [st EXCEPT !.in_memory = <<>>],
     files |-> fs]

\* XRayStorage.clear
clear(st, fs) ==
    [res |-> "ok", val |-> None,
     storage |-> [st EXCEPT !.in_memory = <<>>],
     files |-> IF st.storage_path # None THEN {} ELSE fs]

\* a reference to an instance of storages
Instance(n) == [instance |-> n]

\* a get_storage that makes a backend of its own at every call
get_storage_fresh(reg, sts) ==
    [res |-> "ok", val |-> Some(Instance(Len(sts) + 1)), default |-> reg,
     storages |-> Append(sts, XRayStorage(None))]

\* get_storage(), the global _default_storage being reg (0 for None) and
\* the instances made so far sts: the instance returned is val
get_storage(reg, sts) ==
    IF reg = 0
    THEN [res |-> "ok", val |-> Some(Instance(Len(sts) + 1)), default |-> Len(sts) + 1,
          storages |-> Append(sts, XRayStorage(None))]
    ELSE [res |-> "ok", val |-> Some(Instance(reg)), default |-> reg, storages |-> sts]

\* set_storage(storage)
set_storage(storage) == [res |-> "ok", val |-> None, default |-> storage]

\* ---------------------------------------------------------------- actions

\* the execution ids some backend or the durable location holds
UsedIds ==
    UNION {{storages[s].in_memory[i].key : i \in 1..Len(storages[s].in_memory)} :
               s \in 1..Len(storages)}
        \cup {f.name : f \in files}

\* what the caller sees of an operation on the context: its name, the open
\* step it found, how it ended and what it returned
Observed(op, r) == [op |-> op, open |-> ctx.current_step, res |-> r.res, val |-> r.val]

\* the last step was not an operation of the program
Outside == [op |-> "outside", open |-> 0, res |-> "ok", val |-> None]

\* ctx = XRayContext(execution_id, metadata), the previous context dropped
Construct(execution_id, metadata) ==
    /\ ~inScope
    /\ ctx' = XRayContext(execution_id, metadata, UsedIds, callerDict, clock)
    /\ filter_calls' = <<>>
    /\ last' = [op |-> "construct", open |-> 0, res |-> "ok", val |-> None]
    /\ UNCHANGED <<inScope, callerDict, clock, storeVars, procVars>>

\* time passes
Tick ==
    /\ clock < MaxClock
    /\ clock' = clock + 1
    /\ last' = Outside
    /\ UNCHANGED <<ctxVars, storeVars, procVars>>

\* with ctx: (__enter__ returns the context)
Enter ==
    /\ ~inScope
    /\ inScope' = TRUE
    /\ last' = [op |-> "enter", open |-> ctx.current_step, res |-> "ok", val |-> None]
    /\ UNCHANGED <<ctx, callerDict, filter_calls, clock, storeVars, procVars>>

\* control leaves the with block, normally or by an exception raised in it
Exit(exception) ==
    /\ inScope
    /\ LET r == exit(ctx, callerDict)
       IN /\ ctx' = r.ctx
          /\ callerDict' = r.cd
          /\ last' = Observed("exit", r)
    /\ inScope' = FALSE
    /\ UNCHANGED <<filter_calls, clock, storeVars, procVars>>

StartStep(step_name, inputs, metadata) ==
    /\ LET r == start_step(ctx, step_name, inputs, metadata, callerDict, clock)
       IN /\ ctx' = r.ctx
          /\ callerDict' = r.cd
          /\ last' = Observed("start_step", r)
    /\ filter_calls' = Append(filter_calls, <<>>)
    /\ UNCHANGED <<inScope, clock, storeVars, procVars>>

AddCandidates(candidates, description) ==
    /\ LET r == add_candidates(ctx, candidates, description, callerDict)
       IN /\ ctx' = r.ctx
          /\ callerDict' = r.cd
          /\ last' = Observed("add_candidates", r)
    /\ UNCHANGED <<inScope, filter_calls, clock, storeVars, procVars>>

AddFilter(f) ==
    /\ LET r == add_filter(ctx, f, callerDict)
       IN /\ ctx' = r.ctx
          /\ callerDict' = r.cd
          /\ last' = Observed("add_filter", r)
          /\ filter_calls' =
                 IF r.res = "ok"
                 THEN [filter_calls EXCEPT ![ctx.current_step] = Append(@, f)]
                 ELSE filter_calls
    /\ UNCHANGED <<inScope, clock, storeVars, procVars>>

CompleteStep(outcomes, reasoning) ==
    /\ LET r == complete_step(ctx, outcomes, reasoning, callerDict)
       IN /\ ctx' = r.ctx
          /\ callerDict' = r.cd
          /\ last' = Observed("complete_step", r)
    /\ UNCHANGED <<inScope, filter_calls, clock, storeVars, procVars>>

GetTrail ==
    /\ last' = IF get_trail_raises(ctx)
               THEN [op |-> "get_trail", open |-> ctx.current_step,
                     res |-> "TypeError", val |-> None]
               ELSE [op |-> "get_trail", open |-> ctx.current_step, res |-> "ok",
                     val |-> Some(TrailValue(get_trail(ctx, callerDict), callerDict))]
    /\ UNCHANGED <<ctxVars, clock, storeVars, procVars>>

\* a process start: no backend instance is left, the files are; the first
\* context of the new process is constructed
Restart(execution_id, metadata) ==
    /\ ~inScope
    /\ storages' = <<>>
    /\ ctx' = XRayContext(execution_id, metadata,
                          {f.name : f \in files}, callerDict, clock)
    /\ filter_calls' = <<>>
    /\ last' = [op |-> "restart", open |-> 0, res |-> "ok", val |-> None]
    /\ default_storage' = 0
    /\ writers' = <<>>
    /\ UNCHANGED <<inScope, callerDict, clock, files>>

\* XRayStorage(storage_path)
NewStorage(storage_path) ==
    /\ storages' = Append(storages, XRayStorage(storage_path))
    /\ last' = [op |-> "XRayStorage", open |-> ctx.current_step, res |-> "ok",
                val |-> None]
    /\ UNCHANGED <<ctxVars, clock, files, procVars>>

\* storages[s].save(ctx)
Save(s) ==
    /\ LET r == save(storages[s], files, ctx, callerDict)
       IN /\ storages' = [storages EXCEPT ![s] = r.storage]
          /\ files' = r.files
          /\ last' = Observed("save", r)
    /\ UNCHANGED <<ctxVars, clock, procVars>>

\* a get that keeps the Trail it read from the location in the in-memory
\* mapping
Get_caching(s, execution_id) ==
    /\ LET r == get(storages[s], files, execution_id, callerDict)
       IN /\ last' = Observed("get", r)
          /\ storages' =
                 IF /\ r.res = "ok"
                    /\ r.val # None
                    /\ ~MemHas(storages[s].in_memory, execution_id)
                 THEN [storages EXCEPT ![s].in_memory =
                          MemPut(@, execution_id, [r.val[1] EXCEPT !.metadata = Own(@)])]
                 ELSE storages
    /\ UNCHANGED <<ctxVars, clock, files, procVars>>

\* storages[s].get(execution_id)
Get(s, execution_id) ==
    /\ last' = Observed("get", get(storages[s], files, execution_id, callerDict))
    /\ UNCHANGED <<ctxVars, clock, storeVars, procVars>>

\* storages[s].list_all(limit)
ListAll(s, glob, limit) ==
    /\ last' = Observed("list_all", list_all(storages[s], glob, limit, callerDict))
    /\ UNCHANGED <<ctxVars, clock, storeVars, procVars>>

\* storages[s].clear()
Clear(s) ==
    /\ LET r == clear(storages[s], files)
       IN /\ storages' = [storages EXCEPT ![s] = r.storage]
          /\ files' = r.files
          /\ last' = Observed("clear", r)
    /\ UNCHANGED <<ctxVars, clock, procVars>>

\* something outside the program truncates or garbles a file of the location
ExternalCorrupt(f) ==
    /\ f.content.ok
    /\ files' = (files \ {f}) \cup {[name |-> f.name, content |-> Unparseable]}
    /\ last' = Outside
    /\ UNCHANGED <<ctxVars, clock, storages, procVars>>

\* storages[s].save(XRayContext(execution_id, metadata)): a context that
\* takes no step is saved as soon as it is constructed
SaveNew(s, execution_id, metadata) ==
    /\ LET c == XRayContext(execution_id, metadata, UsedIds \cup {ctx.execution_id},
                            callerDict, clock)
           r == save(storages[s], files, c, callerDict)
       IN /\ storages' = [storages EXCEPT ![s] = r.storage]
          /\ files' = r.files
          /\ last' = Observed("save", r)
    /\ UNCHANGED <<ctxVars, clock, procVars>>

\* a backend instance of another process, on the same location, saves a
\* context of its own
ExternalSave(execution_id, metadata) ==
    /\ LET c == XRayContext(execution_id, metadata, UsedIds \cup {ctx.execution_id},
                            callerDict, clock)
       IN files' = save(XRayStorage(Some("./xray_trails")), files, c, callerDict).files
    /\ last' = Outside
    /\ UNCHANGED <<ctxVars, clock, storages, procVars>>

\* something outside the program deletes a file of the location
ExternalDelete(f) ==
    /\ files' = files \ {f}
    /\ last' = Outside
    /\ UNCHANGED <<ctxVars, clock, storages, procVars>>

\* get_storage()
GetStorage ==
    /\ LET r == get_storage(default_storage, storages)
       IN /\ default_storage' = r.default
          /\ storages' = r.storages
          /\ last' = Observed("get_storage", r)
    /\ UNCHANGED <<ctxVars, clock, files, writers>>

\* set_storage(storages[s])
SetStorage(s) ==
    /\ LET r == set_storage(s)
       IN /\ default_storage' = r.default
          /\ last' = Observed("set_storage", r)
    /\ UNCHANGED <<ctxVars, clock, storeVars, writers>>

\* ------------------------------------------------------------ the arguments

P1 == [type |-> "dict", v |-> "1"]
P2 == [type |-> "dict", v |-> "2"]
T1 == [type |-> "tuple", v |-> "3"]
\* an object json cannot encode and str() can format, and a threading.Lock()
O1 == [type |-> "object", v |-> "4"]
L1 == [type |-> "lock", v |-> "5"]

InitCallerDict == {<<"source", "db">>}

\* XRayContext(execution_id, metadata): no id, the empty string, a caller's id
ConstructArgs ==
    {<<None, None>>, <<Some(0), Some(Own({}))>>, <<Some(1), Some(Shared)>>}

\* start_step(step_name, inputs, metadata)
StartArgs ==
    {<<"keyword_processing", Some({<<"raw_keywords", "water,bottle">>}), None>>,
     <<"product_search", None, Some(Shared)>>}

\* add_candidates(candidates, description)
CandidateArgs ==
    {<<<<P1>>, None>>, <<<<P1>>, Some("")>>,
     <<<<P1, P2>>, Some("Products matching search keywords")>>}

\* add_filter(filter_name, filter_config, passed, rejected, reasoning)
FilterArgs ==
    {[filter_name |-> "rating_threshold", filter_config |-> {<<"min_rating", "3.5">>},
      passed |-> <<>>, rejected |-> <<>>, reasoning |-> None],
     [filter_name |-> "price_range", filter_config |-> {<<"min_price", "22.49">>},
      passed |-> <<P1>>, rejected |-> <<P2>>,
      reasoning |-> Some("Filter products within price range")]}

\* complete_step(outcomes, reasoning)
CompleteArgs ==
    {<<None, None>>, <<Some({}), Some("")>>,
     <<Some({<<"candidates_found", "1">>}), Some("Found 1 candidate products")>>}

\* the add_filter calls the context's first n steps have taken
RECURSIVE FilterCount(_)
FilterCount(n) == IF n = 0 THEN 0 ELSE Len(filter_calls[n]) + FilterCount(n - 1)

\* ------------------------------------------- the Trail Context on its own

InitCtx ==
    /\ \E a \in ConstructArgs :
           /\ ctx = XRayContext(a[1], a[2], {}, InitCallerDict, 0)
           /\ last = [op |-> "construct", open |-> 0, res |-> "ok", val |-> None]
    /\ inScope = FALSE
    /\ callerDict = InitCallerDict
    /\ clock = 0
    /\ filter_calls = <<>>
    /\ storages = <<>>
    /\ files = {}
    /\ default_storage = 0
    /\ writers = <<>>

NextCtx ==
    \/ \E a \in ConstructArgs : Construct(a[1], a[2])
    \/ Enter
    \/ \E exception \in BOOLEAN : Exit(exception)
    \/ \E a \in StartArgs : Len(ctx.steps) < MaxSteps /\ StartStep(a[1], a[2], a[3])
    \/ \E a \in CandidateArgs : AddCandidates(a[1], a[2])
    \/ \E f \in FilterArgs : FilterCount(Len(filter_calls)) < MaxFilters /\ AddFilter(f)
    \/ \E a \in CompleteArgs : CompleteStep(a[1], a[2])
    \/ GetTrail

SpecCtx == InitCtx /\ [][NextCtx]_vars

\* ------------------------------------------------------- listing the trails

Dir == "./xray_trails"

\* XRayStorage(storage_path): no path, the empty string, a directory
PathArgs == {None, Some(""), Some(Dir)}

\* contexts that take no step: a generated id, or the caller's id 1 again
ListConstructArgs == {<<None, None>>, <<Some(1), None>>}

LimitArgs == {None, Some(0), Some(MaxListTrails - 1)}

\* the execution ids are not used up: one in use may be saved again
IdsLeft(execution_id) ==
    \/ execution_id # None /\ execution_id[1] \in UsedIds
    \/ Cardinality(UsedIds) < MaxListTrails

InitList ==
    /\ ctx = XRayContext(None, None, {}, InitCallerDict, 0)
    /\ last = [op |-> "construct", open |-> 0, res |-> "ok", val |-> None]
    /\ inScope = FALSE
    /\ callerDict = InitCallerDict
    /\ clock = 0
    /\ filter_calls = <<>>
    /\ storages = <<>>
    /\ files = {}
    /\ default_storage = 0
    /\ writers = <<>>

NextList ==
    \/ Tick
    \/ \E p \in PathArgs : Len(storages) < MaxListStorages /\ NewStorage(p)
    \/ \E s \in 1..Len(storages), a \in ListConstructArgs :
           IdsLeft(a[1]) /\ SaveNew(s, a[1], a[2])
    \/ \E a \in ListConstructArgs : IdsLeft(a[1]) /\ ExternalSave(a[1], a[2])
    \/ \E s \in 1..Len(storages), glob \in Glob(files), limit \in LimitArgs :
           ListAll(s, glob, limit)
    \/ \E s \in 1..Len(storages) : Clear(s)
    \/ \E f \in files : ExternalCorrupt(f)

SpecList == InitList /\ [][NextList]_vars

\* ------------------------------------------------- reading from a backend

\* the backend is read by get and list_all while it and other processes
\* save to the location
NextRead ==
    \/ Tick
    \/ \E p \in PathArgs : Len(storages) < MaxListStorages /\ NewStorage(p)
    \/ \E s \in 1..Len(storages), a \in ListConstructArgs :
           IdsLeft(a[1]) /\ SaveNew(s, a[1], a[2])
    \/ \E a \in ListConstructArgs : IdsLeft(a[1]) /\ ExternalSave(a[1], a[2])
    \/ \E s \in 1..Len(storages), id \in UsedIds \cup {1} : Get(s, id)
    \/ \E s \in 1..Len(storages), glob \in Glob(files) : ListAll(s, glob, None)
    \/ \E f \in files : ExternalCorrupt(f)

SpecRead == InitList /\ [][NextRead]_vars

\* ------------------------------------------------ saving and retrieving

\* a generated id with metadata of the context's own, or the caller's id 1
\* with the caller's dict
StoreConstructArgs == {<<None, None>>, <<Some(1), Some(Shared)>>}

StoreStartArgs == {<<"product_search", None, Some(Shared)>>}

\* a candidate that is a tuple
StoreCandidateArgs == {<<<<T1>>, Some("Products matching search keywords")>>}

StoreCompleteArgs ==
    {<<Some({<<"candidates_found", "1">>}), Some("Found 1 candidate products")>>}

\* ids to ask for: those in use, the live context's, the caller's id 1
GetArgs == UsedIds \cup {ctx.execution_id, 1}

InitStore ==
    /\ \E a \in StoreConstructArgs : ctx = XRayContext(a[1], a[2], {}, InitCallerDict, 0)
    /\ last = [op |-> "construct", open |-> 0, res |-> "ok", val |-> None]
    /\ inScope = FALSE
    /\ callerDict = InitCallerDict
    /\ clock = 0
    /\ filter_calls = <<>>
    /\ storages = <<>>
    /\ files = {}
    /\ default_storage = 0
    /\ writers = <<>>

NextStore ==
    \/ \E a \in StoreConstructArgs : Construct(a[1], a[2])
    \/ \E a \in StoreConstructArgs : Restart(a[1], a[2])
    \/ \E a \in StoreStartArgs :
           Len(ctx.steps) < MaxStoreSteps /\ StartStep(a[1], a[2], a[3])
    \/ \E a \in StoreCandidateArgs : AddCandidates(a[1], a[2])
    \/ \E a \in StoreCompleteArgs : CompleteStep(a[1], a[2])
    \/ \E p \in PathArgs : Len(storages) < MaxStoreStorages /\ NewStorage(p)
    \/ \E s \in 1..Len(storages) :
           /\ ctx.execution_id \in UsedIds \/ Cardinality(UsedIds) < MaxStoreTrails
           /\ Save(s)
    \/ \E a \in StoreConstructArgs :
           /\ \/ a[1] # None /\ a[1][1] \in UsedIds
              \/ Cardinality(UsedIds) < MaxStoreTrails
           /\ ExternalSave(a[1], a[2])
    \/ \E s \in 1..Len(storages), id \in GetArgs : Get(s, id)
    \/ \E s \in 1..Len(storages) : Clear(s)
    \/ \E f \in files : ExternalCorrupt(f)
    \/ \E f \in files : ExternalDelete(f)

SpecStore == InitStore /\ [][NextStore]_vars

\* ------------------------------------------------------------ the registry

\* the callers use the instance get_storage() returned last
NextReg ==
    \/ GetStorage
    \/ \E s \in 1..Len(storages) : SetStorage(s)
    \/ \E p \in PathArgs : Len(storages) < MaxRegStorages /\ NewStorage(p)
    \/ \E a \in ListConstructArgs :
           /\ last.op = "get_storage"
           /\ \/ a[1] # None /\ a[1][1] \in UsedIds
              \/ Cardinality(UsedIds) < MaxRegTrails
           /\ SaveNew(last.val[1].instance, a[1], a[2])
    \/ \E id \in GetArgs : last.op = "get_storage" /\ Get(last.val[1].instance, id)
    \/ \E a \in ListConstructArgs : Restart(a[1], a[2])

SpecReg == InitList /\ [][NextReg]_vars

\* ------------------------------------------------- payloads of any type

PayloadCandidateArgs == {<<<<P1, T1>>, None>>, <<<<O1>>, None>>, <<<<L1>>, None>>}

PayloadFilterArgs ==
    {[filter_name |-> "rating_threshold", filter_config |-> {<<"min_rating", "3.5">>},
      passed |-> <<O1>>, rejected |-> <<T1>>, reasoning |-> None]}

NextPayload ==
    \/ \E a \in StoreConstructArgs : Construct(a[1], a[2])
    \/ \E a \in StoreStartArgs :
           Len(ctx.steps) < MaxStoreSteps /\ StartStep(a[1], a[2], a[3])
    \/ \E a \in PayloadCandidateArgs : AddCandidates(a[1], a[2])
    \/ \E f \in PayloadFilterArgs :
           FilterCount(Len(filter_calls)) < MaxPayloadFilters /\ AddFilter(f)
    \/ \E a \in StoreCompleteArgs : CompleteStep(a[1], a[2])
    \/ GetTrail
    \/ \E p \in PathArgs : Len(storages) < MaxStoreStorages /\ NewStorage(p)
    \/ \E s \in 1..Len(storages) :
           /\ ctx.execution_id \in UsedIds \/ Cardinality(UsedIds) < MaxStoreTrails
           /\ Save(s)
    \/ \E s \in 1..Len(storages), id \in GetArgs : Get(s, id)

SpecPayload == InitStore /\ [][NextPayload]_vars

\* ------------------------------------- one backend and the context it saves

\* payloads json gives back as they were
TierCandidateArgs == {<<<<P1>>, Some("Products matching search keywords")>>}

TierFilterArgs ==
    {[filter_name |-> "price_range", filter_config |-> {<<"min_price", "22.49">>},
      passed |-> <<P1>>, rejected |-> <<P2>>,
      reasoning |-> Some("Filter products within price range")]}

\* the process has one backend, durable or memory-only, and nothing else
\* writes to the location
InitTier ==
    /\ \E a \in StoreConstructArgs : ctx = XRayContext(a[1], a[2], {}, InitCallerDict, 0)
    /\ last = [op |-> "construct", open |-> 0, res |-> "ok", val |-> None]
    /\ inScope = FALSE
    /\ callerDict = InitCallerDict
    /\ clock = 0
    /\ filter_calls = <<>>
    /\ \E p \in PathArgs : storages = <<XRayStorage(p)>>
    /\ files = {}
    /\ default_storage = 0
    /\ writers = <<>>

NextTier ==
    \/ \E a \in StoreConstructArgs : Construct(a[1], a[2])
    \/ \E a \in StoreStartArgs :
           Len(ctx.steps) < MaxStoreSteps /\ StartStep(a[1], a[2], a[3])
    \/ \E a \in TierCandidateArgs : AddCandidates(a[1], a[2])
    \/ \E f \in TierFilterArgs :
           FilterCount(Len(filter_calls)) < MaxPayloadFilters /\ AddFilter(f)
    \/ \E a \in StoreCompleteArgs : CompleteStep(a[1], a[2])
    \/ \E s \in 1..Len(storages) :
           /\ ctx.execution_id \in UsedIds \/ Cardinality(UsedIds) < MaxStoreTrails
           /\ Save(s)
    \/ \E s \in 1..Len(storages), id \in GetArgs : Get(s, id)
    \/ \E s \in 1..Len(storages), glob \in Glob(files) : ListAll(s, glob, None)
    \/ \E s \in 1..Len(storages) : Clear(s)

SpecTier == InitTier /\ [][NextTier]_vars

\* ------------------------------------------------------ concurrent saves

\* the threads that call save, each once
Threads == {1, 2}

\* the lines of save a call has reached
Rank(pc) ==
    CASE pc = "idle" -> 0 [] pc = "got" -> 1 [] pc = "stored" -> 2
      [] pc = "opened" -> 3 [] pc = "done" -> 4

\* history: the number of steps the save calls have taken
RECURSIVE StepsOf(_)
StepsOf(ts) ==
    IF ts = {} THEN 0
    ELSE LET t == CHOOSE x \in ts : TRUE
         IN Rank(writers[t].pc) + StepsOf(ts \ {t})

Stamp == StepsOf(Threads) + 1

Idle ==
    [pc |-> "idle", s |-> 0, trail |-> None,
     began |-> 0, mem_at |-> 0, open_at |-> 0, ended |-> 0]

\* the length of the text json.dump writes for a Trail: longer with every
\* step and every candidate
RECURSIVE Size(_)
Size(doc) ==
    IF doc.steps = <<>> THEN 1
    ELSE 1 + Len(Head(doc.steps).candidates)
           + Size([doc EXCEPT !.steps = Tail(@)])

\* self.storage_path / f"{execution_id}.json": one file for all ids
file_path_fixed(execution_id) == 0

\* self.storage_path / f"{execution_id}.json"
file_path(execution_id) == execution_id

\* an in-memory write that keeps an entry the mapping already has
mem_write_first(st, trail) ==
    IF MemHas(st.in_memory, trail.execution_id) THEN st
    ELSE [st EXCEPT !.in_memory = MemPut(@, trail.execution_id, trail)]

\* self._in_memory[execution_id] = trail
mem_write(st, trail) ==
    [st EXCEPT !.in_memory = MemPut(@, trail.execution_id, trail)]

\* open(file_path, 'r+'), falling back to 'w': the content is kept
open_rplus(fs, name) ==
    IF FileExists(fs, name) THEN fs ELSE FileWrite(fs, name, Unparseable)

\* open(file_path, 'w'): the file is created or truncated to no content,
\* which json.load cannot parse
open_w(fs, name) == FileWrite(fs, name, Unparseable)

\* json.dump and the close, through a descriptor opened before: the text is
\* written from offset 0 over what the file holds by now, and what a longer
\* text left behind it stays
dump(fs, name, doc) ==
    LET old == FileContent(fs, name)
    IN FileWrite(fs, name,
                 IF old.ok /\ Size(old.doc) > Size(doc) THEN Unparseable
                 ELSE Parseable(doc))

\* the contexts the threads save: two with the caller's id 1, one of them
\* with a step and a candidate, and one with the caller's id 2
ConcContexts ==
    LET c1 == XRayContext(Some(1), None, {}, InitCallerDict, 0)
        c2 == XRayContext(Some(2), None, {}, InitCallerDict, 0)
        st == start_step(c1, "product_search", None, None, InitCallerDict, 0).ctx
    IN {c1, c2, add_candidates(st, <<P1>>, None, InitCallerDict).ctx}

\* thread t calls storages[s].save(c): trail = context.get_trail()
SaveGetTrail(t, s, c) ==
    /\ writers[t].pc = "idle"
    /\ writers' = [writers EXCEPT ![t] =
           [@ EXCEPT !.pc = "got", !.s = s, !.trail = Some(get_trail(c, callerDict)),
                     !.began = Stamp]]
    /\ last' = Outside
    /\ UNCHANGED <<ctxVars, clock, storeVars, default_storage>>

\* self._in_memory[execution_id] = trail
SaveMemWrite(t) ==
    /\ writers[t].pc = "got"
    /\ storages' = [storages EXCEPT ![writers[t].s] = mem_write(@, writers[t].trail[1])]
    /\ writers' = [writers EXCEPT ![t] =
           [@ EXCEPT !.pc = IF storages[writers[t].s].storage_path # None
                            THEN "stored" ELSE "done",
                     !.mem_at = Stamp,
                     !.ended = IF storages[writers[t].s].storage_path # None
                               THEN 0 ELSE Stamp]]
    /\ last' = Outside
    /\ UNCHANGED <<ctxVars, clock, files, default_storage>>

\* with open(file_path, 'w') as f:
SaveOpen(t) ==
    /\ writers[t].pc = "stored"
    /\ files' = open_w(files, file_path(writers[t].trail[1].execution_id))
    /\ writers' = [writers EXCEPT ![t] = [@ EXCEPT !.pc = "opened", !.open_at = Stamp]]
    /\ last' = Outside
    /\ UNCHANGED <<ctxVars, clock, storages, default_storage>>

\* json.dump(trail, f, indent=2, default=str) and the end of the with block
SaveDump(t) ==
    /\ writers[t].pc = "opened"
    /\ files' = dump(files, file_path(writers[t].trail[1].execution_id),
                     json_dump(writers[t].trail[1], callerDict))
    /\ writers' = [writers EXCEPT ![t] = [@ EXCEPT !.pc = "done", !.ended = Stamp]]
    /\ last' = Observed("save", [res |-> "ok", val |-> None])
    /\ UNCHANGED <<ctxVars, clock, storages, default_storage>>

\* two backend instances on one durable location, no save called yet
InitConc ==
    /\ ctx = XRayContext(None, None, {}, InitCallerDict, 0)
    /\ last = [op |-> "construct", open |-> 0, res |-> "ok", val |-> None]
    /\ inScope = FALSE
    /\ callerDict = InitCallerDict
    /\ clock = 0
    /\ filter_calls = <<>>
    /\ storages = <<XRayStorage(Some(Dir)), XRayStorage(Some(Dir))>>
    /\ files = {}
    /\ default_storage = 0
    /\ writers = [t \in Threads |-> Idle]

NextConc ==
    \/ \E t \in Threads, s \in 1..Len(storages), c \in ConcContexts :
           SaveGetTrail(t, s, c)
    \/ \E t \in Threads : SaveMemWrite(t)
    \/ \E t \in Threads : SaveOpen(t)
    \/ \E t \in Threads : SaveDump(t)
    \/ \E s \in 1..Len(storages), id \in GetArgs : Get(s, id)
    \/ \E s \in 1..Len(storages), glob \in Glob(files) : ListAll(s, glob, None)

SpecConc == InitConc /\ [][NextConc]_vars

\* ------------------------------------------------------------------ claims

ContextOps == {"add_candidates", "add_filter", "complete_step"}

\* C1: in every state of a Trail Context in which no step is open,
\* add_candidates, add_filter and complete_step each fail with the "no
\* active step" ValueError, whatever their arguments, and a call of one of
\* them that found no open step has failed with it.
C1_NoOpenStepFails ==
    /\ ctx.current_step = 0 =>
           /\ \A a \in CandidateArgs :
                  add_candidates(ctx, a[1], a[2], callerDict).res = "ValueError"
           /\ \A f \in FilterArgs : add_filter(ctx, f, callerDict).res = "ValueError"
           /\ \A a \in CompleteArgs :
                  complete_step(ctx, a[1], a[2], callerDict).res = "ValueError"
    /\ (last.op \in ContextOps /\ last.open = 0) => last.res = "ValueError"

\* C1 witness: add_filter has failed after the sole step was completed.
C1_Witness ==
    /\ last.op = "add_filter" /\ last.res = "ValueError"
    /\ Len(ctx.steps) = 1 /\ ctx.current_step = 0

\* C2: when control leaves the with block, normally or by an exception, no
\* step is open afterwards, and every step, the one that was open included,
\* has the outcomes, the reasoning and all other fields it had before.
C2_ExitClosesOpenStep ==
    [][\A exception \in BOOLEAN :
           Exit(exception) => ctx'.current_step = 0 /\ ctx'.steps = ctx.steps]_vars

\* C2 witness: the scope was left by an exception while step 2 was open.
C2_Witness ==
    /\ last.op = "exit" /\ last.open = 2
    /\ ~inScope /\ ctx.current_step = 0
    /\ ctx.steps[2].outcomes = {} /\ ctx.steps[2].candidates # <<>>

\* C3: every step's filters_applied holds exactly one Filter Record per
\* add_filter call made while that step was the open step, in call order,
\* each with the call's name, config, lists, list lengths and reasoning.
C3_FiltersAccumulate ==
    /\ Len(filter_calls) = Len(ctx.steps)
    /\ \A i \in 1..Len(ctx.steps) :
           LET fa == ctx.steps[i].filters_applied
               calls == filter_calls[i]
           IN /\ Len(fa) = Len(calls)
              /\ \A j \in 1..Len(fa) :
                     /\ fa[j].name = calls[j].filter_name
                     /\ fa[j].config = calls[j].filter_config
                     /\ fa[j].passed = calls[j].passed
                     /\ fa[j].rejected = calls[j].rejected
                     /\ fa[j].passed_count = Len(calls[j].passed)
                     /\ fa[j].rejected_count = Len(calls[j].rejected)
                     /\ fa[j].reasoning = calls[j].reasoning

\* C3 witness: one step holds two different Filter Records in call order.
C3_Witness ==
    \E i \in 1..Len(ctx.steps) :
        /\ Len(ctx.steps[i].filters_applied) = 2
        /\ ctx.steps[i].filters_applied[1].name = "price_range"
        /\ ctx.steps[i].filters_applied[2].name = "rating_threshold"

\* C4: after a successful add_candidates the open step's candidates are
\* exactly the list of that call, and the same call made again changes
\* nothing.
C4_CandidatesReplace ==
    [][\A a \in CandidateArgs :
           (AddCandidates(a[1], a[2]) /\ last'.res = "ok") =>
               /\ ctx'.steps[ctx.current_step].candidates = a[1]
               /\ add_candidates(ctx', a[1], a[2], callerDict').ctx = ctx'
               /\ add_candidates(ctx', a[1], a[2], callerDict').cd = callerDict']_vars

\* C4 witness: a step that got <<P1, P2>> with a description holds <<P1>>
\* after a second add_candidates.
C4_Witness ==
    /\ last.op = "add_candidates" /\ last.res = "ok"
    /\ ctx.steps[ctx.current_step].candidates = <<P1>>
    /\ \E p \in ctx.steps[ctx.current_step].metadata.val : p[1] = "candidates_description"

\* C5: save(ctx) immediately followed by get(ctx.execution_id) on the same
\* backend, memory-only or durable, returns without raising a Trail equal
\* to ctx.get_trail().
C5_SaveGetRoundTrip ==
    [][\A s \in 1..Len(storages) :
           Save(s) =>
               get(storages'[s], files', ctx'.execution_id, callerDict')
                   = [res |-> "ok",
                      val |-> Some(TrailValue(get_trail(ctx', callerDict'),
                                              callerDict'))]]_vars

\* C5 witness: a durable backend has saved a context whose step holds a
\* tuple candidate, which the file written by the save holds as a list.
C5_Witness ==
    /\ last.op = "save"
    /\ \E s \in 1..Len(storages) :
           /\ storages[s].storage_path # None
           /\ MemHas(storages[s].in_memory, ctx.execution_id)
    /\ Len(ctx.steps) = 1 /\ ctx.steps[1].candidates = <<T1>>
    /\ FileExists(files, ctx.execution_id)
    /\ FileContent(files, ctx.execution_id).ok
    /\ FileContent(files, ctx.execution_id).doc
           # TrailValue(get_trail(ctx, callerDict), callerDict)

\* the Trail a backend's in-memory mapping holds for an id, as get returns it
InMemory(s, id) == TrailValue(MemGet(storages[s].in_memory, id), callerDict)

\* C8: for an id that is neither in a backend's in-memory mapping nor, if
\* the backend is durable, a file of its location, get returns None and
\* does not raise.
C8_AbsentIsNone ==
    \A s \in 1..Len(storages), id \in GetArgs :
        (/\ ~MemHas(storages[s].in_memory, id)
         /\ storages[s].storage_path # None => ~FileExists(files, id))
            => get(storages[s], files, id, callerDict) = [res |-> "ok", val |-> None]

\* C8 witness: get on a durable backend that holds a Trail in both tiers,
\* asked for another id, has returned None.
C8_Witness ==
    /\ last.op = "get" /\ last.res = "ok" /\ last.val = None
    /\ \A s \in 1..Len(storages) :
           /\ storages[s].storage_path # None
           /\ Len(storages[s].in_memory) = 1
           /\ FileExists(files, storages[s].in_memory[1].key)
           /\ ~MemHas(storages[s].in_memory, ctx.execution_id)
    /\ ~FileExists(files, ctx.execution_id)

\* C9: whenever an id is in a backend's in-memory mapping, get on that
\* backend returns the in-memory Trail without raising, whatever the file of
\* that id holds and whether or not it exists.
C9_MemoryAuthoritative ==
    \A s \in 1..Len(storages), id \in GetArgs :
        MemHas(storages[s].in_memory, id) =>
            get(storages[s], files, id, callerDict)
                = [res |-> "ok", val |-> Some(InMemory(s, id))]

\* C9 witness: get on a durable backend has returned the in-memory Trail of
\* an id whose file was garbled after the save.
C9_Witness ==
    /\ last.op = "get" /\ last.res = "ok" /\ last.val # None
    /\ \A s \in 1..Len(storages) :
           /\ storages[s].storage_path # None
           /\ MemHas(storages[s].in_memory, last.val[1].execution_id)
           /\ last.val[1] = InMemory(s, last.val[1].execution_id)
    /\ FileExists(files, last.val[1].execution_id)
    /\ ~FileContent(files, last.val[1].execution_id).ok

\* the ids list_all has to report: the in-memory keys and, for a durable
\* backend, the stems of the files that parse
Listable(s) ==
    {storages[s].in_memory[i].key : i \in 1..Len(storages[s].in_memory)}
        \cup (IF storages[s].storage_path # None
              THEN {f.name : f \in {g \in files : g.content.ok}} ELSE {})

\* C6: list_all(limit=N) returns at most N trails for every N >= 0, N = 0
\* included.
C6_AtMostLimit ==
    \A s \in 1..Len(storages), glob \in Glob(files), n \in 0..MaxListTrails :
        Len(list_all(storages[s], glob, Some(n), callerDict).val) <= n

\* C7: the result of list_all is ordered by created_at, newest first,
\* whichever tier a trail came from (the ISO strings compare as the
\* instants do), and for N >= 1 list_all(limit=N) is the first N entries of
\* list_all() over the same directory scan.
C7_NewestFirst ==
    /\ \A t1, t2 \in 0..MaxClock :
           t1 < t2 => StrLess(isoformat(now(t1)), isoformat(now(t2)))
    /\ \A s \in 1..Len(storages), glob \in Glob(files) :
           LET all == list_all(storages[s], glob, None, callerDict).val
           IN /\ \A i, j \in 1..Len(all) :
                     i < j => ~StrLess(all[i].created_at, all[j].created_at)
              /\ \A n \in 1..(MaxListTrails + 1) :
                     list_all(storages[s], glob, Some(n), callerDict).val
                         = SubSeq(all, 1, IF n < Len(all) THEN n ELSE Len(all))

\* C7 witness: three trails created at three instants, one of them only on
\* disk, and list_all(limit=2) has returned the two newest, newest first.
C7_Witness ==
    /\ last.op = "list_all" /\ Len(last.val) = 2
    /\ last.val[1].created_at = isoformat(now(2))
    /\ last.val[2].created_at = isoformat(now(1))
    /\ Len(storages) = 1 /\ Cardinality(Listable(1)) = 3
    /\ \E f \in files : f.content.ok /\ f.content.doc.created_at = isoformat(now(0))
    /\ \E i \in 1..2 : ~MemHas(storages[1].in_memory, last.val[i].execution_id)

\* C10: list_all() returns exactly one entry per execution id that is in
\* the in-memory mapping or a parseable file of the durable location, and
\* for an id in the in-memory mapping the entry is the in-memory Trail.
C10_OneEntryPerId ==
    \A s \in 1..Len(storages), glob \in Glob(files) :
        LET all == list_all(storages[s], glob, None, callerDict).val
        IN /\ Len(all) = Cardinality(Listable(s))
           /\ {all[i].execution_id : i \in 1..Len(all)} = Listable(s)
           /\ \A i \in 1..Len(all) :
                  MemHas(storages[s].in_memory, all[i].execution_id) =>
                      all[i] = InMemory(s, all[i].execution_id)

\* C10 witness: list_all() has returned two trails, one for an id whose
\* file holds another Trail than the in-memory mapping, one read from disk.
C10_Witness ==
    /\ last.op = "list_all" /\ Len(last.val) = 2
    /\ Len(storages) = 1 /\ Cardinality(Listable(1)) = 2
    /\ \E i, j \in 1..2 :
           /\ MemHas(storages[1].in_memory, last.val[i].execution_id)
           /\ \E f \in files :
                  /\ f.name = last.val[i].execution_id /\ f.content.ok
                  /\ f.content.doc # last.val[i]
           /\ ~MemHas(storages[1].in_memory, last.val[j].execution_id)

\* the entries of a list
Range(seq) == {seq[i] : i \in 1..Len(seq)}

\* C11: whatever unparseable files the durable location holds and in
\* whatever order the scan meets them, list_all does not raise, returns
\* every in-memory Trail and the Trail of every parseable file whose id is
\* not in memory, and returns no entry for an unparseable file whose id is
\* not in memory.
C11_CorruptFileSkipped ==
    \A s \in 1..Len(storages), glob \in Glob(files) :
        LET r == list_all(storages[s], glob, None, callerDict)
            mem == storages[s].in_memory
        IN /\ r.res = "ok"
           /\ \A i \in 1..Len(mem) : InMemory(s, mem[i].key) \in Range(r.val)
           /\ storages[s].storage_path # None =>
                  \A f \in files :
                      ~MemHas(mem, f.name) =>
                          IF f.content.ok THEN f.content.doc \in Range(r.val)
                          ELSE \A t \in Range(r.val) : t.execution_id # f.name

\* C11 witness: with an unparseable file in its location, a durable backend's
\* list_all has returned its in-memory Trail and the Trail of another file.
C11_Witness ==
    /\ last.op = "list_all" /\ last.res = "ok" /\ Len(last.val) = 2
    /\ Len(storages) = 1 /\ storages[1].storage_path # None
    /\ Cardinality(files) = 3
    /\ \E f \in files : ~f.content.ok /\ ~MemHas(storages[1].in_memory, f.name)
    /\ \E i, j \in 1..2 :
           /\ MemHas(storages[1].in_memory, last.val[i].execution_id)
           /\ ~MemHas(storages[1].in_memory, last.val[j].execution_id)

\* C12 as stated: on a durable backend, get of an id whose file does not
\* parse raises the parse failure whenever that id is requested.
C12_CorruptAlwaysFails ==
    \A s \in 1..Len(storages), id \in GetArgs :
        (/\ storages[s].storage_path # None
         /\ FileExists(files, id) /\ ~FileContent(files, id).ok)
            => get(storages[s], files, id, callerDict).res = "JSONDecodeError"

\* C12: on a durable backend whose in-memory mapping does not hold the id,
\* get of an id whose file does not parse raises the parse failure: it
\* returns neither None nor a Trail.
C12_CorruptFileFails ==
    \A s \in 1..Len(storages), id \in GetArgs :
        (/\ storages[s].storage_path # None
         /\ ~MemHas(storages[s].in_memory, id)
         /\ FileExists(files, id) /\ ~FileContent(files, id).ok)
            => get(storages[s], files, id, callerDict)
                   = [res |-> "JSONDecodeError", val |-> None]

\* C12 witness: a get has raised the parse failure while another backend
\* instance on the location still holds the id in memory.
C12_Witness ==
    /\ last.op = "get" /\ last.res = "JSONDecodeError"
    /\ \E f \in files :
           /\ ~f.content.ok
           /\ \E s, s2 \in 1..Len(storages) :
                  /\ storages[s].storage_path # None
                  /\ ~MemHas(storages[s].in_memory, f.name)
                  /\ MemHas(storages[s2].in_memory, f.name)

\* C13: right after clear() on a backend its in-memory mapping is empty and,
\* if it is durable, the location holds no file, so that get returns None
\* for every id and list_all() returns the empty list.
C13_ClearEmptiesBothTiers ==
    [][\A s \in 1..Len(storages) :
           Clear(s) =>
               /\ last'.res = "ok"
               /\ storages'[s].in_memory = <<>>
               /\ storages'[s].storage_path # None => files' = {}
               /\ \A id \in GetArgs :
                      get(storages'[s], files', id, callerDict')
                          = [res |-> "ok", val |-> None]
               /\ \A glob \in Glob(files') :
                      list_all(storages'[s], glob, None, callerDict')
                          = [res |-> "ok", val |-> <<>>]]_vars

\* C13 witness: a durable backend has been cleared, its mapping and the
\* location are empty, and another durable instance still holds in memory
\* the Trail that was saved.
C13_Witness ==
    /\ last.op = "clear" /\ files = {}
    /\ \E s, s2 \in 1..Len(storages) :
           /\ storages[s].storage_path # None /\ storages[s].in_memory = <<>>
           /\ storages[s2].storage_path # None /\ storages[s2].in_memory # <<>>

\* both threads have finished a save on the same backend
BothDone(t, u) ==
    /\ t # u /\ writers[t].pc = "done" /\ writers[u].pc = "done"
    /\ writers[t].s = writers[u].s

SameId(t, u) == writers[t].trail[1].execution_id = writers[u].trail[1].execution_id

\* C14: after two sequential saves of the same execution id on a backend,
\* the later one begun after the earlier one returned, the in-memory entry
\* is the later Trail, the file is the JSON document of the later Trail, and
\* list_all holds one entry for the id.
C14_SaveOverwrites ==
    \A t, u \in DOMAIN writers :
        (BothDone(t, u) /\ SameId(t, u) /\ writers[t].ended < writers[u].began) =>
            LET st == storages[writers[u].s]
                trail == writers[u].trail[1]
                id == trail.execution_id
            IN /\ MemGet(st.in_memory, id) = trail
               /\ FileExists(files, id)
               /\ FileContent(files, id) = Parseable(json_dump(trail, callerDict))
               /\ \A glob \in Glob(files) :
                      Cardinality({i \in DOMAIN list_all(st, glob, None, callerDict).val :
                          list_all(st, glob, None, callerDict).val[i].execution_id = id}) = 1

\* C14 witness: the context with a step and a candidate was saved, then a
\* context with the same id and no step, on the same backend, and the file
\* holds the Trail without steps.
C14_Witness ==
    \E t, u \in DOMAIN writers :
        /\ BothDone(t, u) /\ SameId(t, u) /\ writers[t].ended < writers[u].began
        /\ Len(writers[t].trail[1].steps) = 1 /\ writers[u].trail[1].steps = <<>>
        /\ FileContent(files, writers[u].trail[1].execution_id).ok
        /\ FileContent(files, writers[u].trail[1].execution_id).doc.steps = <<>>

\* C15: whatever lines the save calls have reached, every file of the
\* location holds a complete document, so that no get on a backend that
\* reads the file raises a parse failure.
C15_AtomicFileWrite ==
    /\ \A f \in files : f.content.ok
    /\ \A s \in 1..Len(storages), id \in GetArgs :
           get(storages[s], files, id, callerDict).res = "ok"

\* C16: when two save calls of one execution id on a backend have both
\* returned, the in-memory entry is the Trail of the call that wrote the
\* mapping last and the file is the document of the call that wrote the
\* file last (or, if a longer text was written under it while it had the
\* file open, not a document at all), whichever call that is: the two tiers
\* need not hold the same Trail.
C16_LastWriterPerTier ==
    \A t, u \in DOMAIN writers :
        (BothDone(t, u) /\ SameId(t, u)) =>
            LET st == storages[writers[u].s]
                id == writers[u].trail[1].execution_id
                doc_t == json_dump(writers[t].trail[1], callerDict)
                doc_u == json_dump(writers[u].trail[1], callerDict)
            IN /\ writers[t].mem_at < writers[u].mem_at =>
                      MemGet(st.in_memory, id) = writers[u].trail[1]
               /\ writers[t].ended < writers[u].ended =>
                      FileContent(files, id) =
                          IF writers[t].ended > writers[u].open_at
                                 /\ Size(doc_t) > Size(doc_u)
                          THEN Unparseable ELSE Parseable(doc_u)

\* C16 witness: both saves of the id have returned, and the file holds the
\* complete document of another Trail than the in-memory mapping.
C16_Witness ==
    \E t, u \in DOMAIN writers :
        /\ BothDone(t, u) /\ SameId(t, u)
        /\ writers[t].mem_at < writers[u].mem_at
        /\ writers[u].ended < writers[t].ended
        /\ LET st == storages[writers[u].s]
               id == writers[u].trail[1].execution_id
           IN /\ FileContent(files, id).ok
              /\ FileContent(files, id).doc
                     # json_dump(MemGet(st.in_memory, id), callerDict)

\* C17: when two save calls of different execution ids have both returned,
\* however their lines interleaved, the mapping of each call's backend
\* holds that call's Trail under its id and the file of the id is the
\* document of that Trail.
C17_DifferentIdsIndependent ==
    \A t, u \in DOMAIN writers :
        (/\ t # u /\ writers[t].pc = "done" /\ writers[u].pc = "done"
         /\ ~SameId(t, u)) =>
            LET st == storages[writers[t].s]
                trail == writers[t].trail[1]
                id == trail.execution_id
            IN /\ MemHas(st.in_memory, id)
               /\ MemGet(st.in_memory, id) = trail
               /\ FileExists(files, id)
               /\ FileContent(files, id) = Parseable(json_dump(trail, callerDict))

\* C17 witness: two saves of different ids on one backend, their lines
\* alternating, have returned, and the mapping and the location hold two
\* trails each.
C17_Witness ==
    \E t, u \in DOMAIN writers :
        /\ BothDone(t, u) /\ ~SameId(t, u)
        /\ writers[t].mem_at < writers[u].mem_at
        /\ writers[u].mem_at < writers[t].open_at
        /\ writers[t].open_at < writers[u].open_at
        /\ writers[u].open_at < writers[t].ended
        /\ writers[t].ended < writers[u].ended
        /\ Len(storages[writers[t].s].in_memory) = 2
        /\ Cardinality(files) = 2 /\ \A f \in files : f.content.ok

\* C18: save does not raise, whatever payload values the steps of the
\* context hold, and on a durable backend the Trail can be read back
\* afterwards by any instance on the location.
C18_SaveNeverFails ==
    \A s \in 1..Len(storages) :
        LET r == save(storages[s], files, ctx, callerDict)
        IN /\ r.res = "ok"
           /\ storages[s].storage_path # None =>
                  get(XRayStorage(Some(Dir)), r.files, ctx.execution_id, callerDict).val
                      # None

\* C19: get_storage() returns the instance the global holds and leaves the
\* global and the instances as they are, or, the global holding none, makes
\* a memory-only backend, stores it in the global and returns it;
\* set_storage(s) makes the global hold s; and nothing else in a running
\* process changes the global. So every get_storage() returns the instance
\* of the last set_storage or, without one, the instance the first
\* get_storage() made.
C19_RegistryHoldsOneInstance ==
    [][/\ GetStorage =>
              /\ last'.val = Some(Instance(default_storage'))
              /\ default_storage # 0 =>
                     default_storage' = default_storage /\ storages' = storages
              /\ default_storage = 0 =>
                     /\ default_storage' = Len(storages) + 1
                     /\ storages' = Append(storages,
                                         [storage_path |-> None, in_memory |-> <<>>])
       /\ \A s \in 1..Len(storages) : SetStorage(s) => default_storage' = s
       /\ default_storage' # default_storage =>
              \/ last'.op = "set_storage"
              \/ last'.op = "get_storage" /\ default_storage = 0
              \/ last'.op = "restart"]_vars

\* C19 witness: get_storage() has returned the durable backend that was
\* passed to set_storage, which holds a trail an earlier caller saved, while
\* an instance that get_storage() had made before exists as well.
C19_Witness ==
    /\ last.op = "get_storage" /\ last.val = Some(Instance(default_storage))
    /\ default_storage > 1
    /\ storages[default_storage].storage_path # None
    /\ storages[default_storage].in_memory # <<>>
    /\ storages[1] = [storage_path |-> None, in_memory |-> <<>>]

\* the operations of a Trail Context
ContextOpNames ==
    {"construct", "enter", "exit", "start_step", "add_candidates", "add_filter",
     "complete_step", "get_trail"}

\* C20: an operation of a Trail Context leaves every backend's in-memory
\* mapping and the durable location as they were: the instances and the
\* files are the same, and get returns for every id what it returned
\* before.
C20_ContextOpsLeaveStorage ==
    [][last'.op \in ContextOpNames =>
           /\ files' = files
           /\ Len(storages') = Len(storages)
           /\ \A s \in 1..Len(storages), id \in GetArgs :
                  get(storages'[s], files', id, callerDict')
                      = get(storages[s], files, id, callerDict)]_vars

\* C21: the open-step reference is None or refers to the last element of
\* steps, the step started most recently; it never refers to an earlier
\* step or to a step that is not in steps.
C21_OpenStepIsLast ==
    ctx.current_step = 0 \/ ctx.current_step = Len(ctx.steps)

\* C21 witness: start_step was called while step 1 was open, and step 2 is
\* the open step.
C21_Witness ==
    /\ last.op = "start_step" /\ last.open = 1
    /\ Len(ctx.steps) = 2 /\ ctx.current_step = 2

\* C22: across every operation on a context its steps keep their step_ids
\* and positions, steps never gets shorter, and it gets longer only by a
\* start_step, which adds exactly one step at the end.
C22_StepsAppendOnly ==
    [][last'.op # "construct" =>
           /\ Len(ctx'.steps) >= Len(ctx.steps)
           /\ \A i \in 1..Len(ctx.steps) :
                  ctx'.steps[i].step_id = ctx.steps[i].step_id
           /\ last'.op = "start_step" => Len(ctx'.steps) = Len(ctx.steps) + 1
           /\ last'.op # "start_step" => Len(ctx'.steps) = Len(ctx.steps)]_vars

\* C22 witness: a second step was started after the first was completed
\* with outcomes, and the two steps have different ids.
C22_Witness ==
    /\ last.op = "start_step" /\ last.open = 0
    /\ Len(ctx.steps) = 2 /\ ctx.steps[1].outcomes # {}
    /\ ctx.steps[1].step_id # ctx.steps[2].step_id

\* C23: an operation on a context leaves every step that is not the open
\* step with the candidates, filters_applied, outcomes, reasoning and
\* metadata it had, and does not make it the open step.
C23_ClosedStepFrozen ==
    [][last'.op # "construct" =>
           \A i \in 1..Len(ctx.steps) :
               i # ctx.current_step =>
                   /\ ctx'.current_step # i
                   /\ ctx'.steps[i].candidates = ctx.steps[i].candidates
                   /\ ctx'.steps[i].filters_applied = ctx.steps[i].filters_applied
                   /\ ctx'.steps[i].outcomes = ctx.steps[i].outcomes
                   /\ ctx'.steps[i].reasoning = ctx.steps[i].reasoning
                   /\ DictValue(ctx'.steps[i].metadata, callerDict')
                          = DictValue(ctx.steps[i].metadata, callerDict)]_vars

\* C24: the Trail get_trail returns has total_steps equal to the number of
\* start_step calls made on the context and to the length of steps, and its
\* serialized steps are the context's steps in their order, each with its
\* step_id, step_name, candidates and outcomes.
C24_TrailCountsSteps ==
    (last.op = "get_trail" /\ last.res = "ok") =>
        LET trail == last.val[1]
        IN /\ trail.total_steps = Len(filter_calls)
           /\ trail.total_steps = Len(ctx.steps)
           /\ Len(trail.steps) = Len(ctx.steps)
           /\ \A i \in 1..Len(ctx.steps) :
                  /\ trail.steps[i].step_id = ctx.steps[i].step_id
                  /\ trail.steps[i].step_name = ctx.steps[i].step_name
                  /\ trail.steps[i].candidates = ctx.steps[i].candidates
                  /\ trail.steps[i].outcomes = ctx.steps[i].outcomes

C24_Witness ==
    /\ last.op = "get_trail"
    /\ last.res = "ok"
    /\ last.val[1].total_steps = 2
    /\ last.val[1].steps[1].step_name = "keyword_processing"
    /\ last.val[1].steps[2].step_name = "product_search"
    /\ last.val[1].steps[1].candidates = <<>>
    /\ last.val[1].steps[2].candidates = <<P1, P2>>

\* C25: complete_step on a context with an open step closes it whatever the
\* arguments; the step's outcomes become the supplied mapping only when a
\* non-empty mapping is supplied and its reasoning the supplied text only
\* when a non-empty text is supplied; otherwise both stay as they were, and
\* nothing else of the context changes.
C25_CompleteStepOverwrites ==
    [][/\ ctx.current_step # 0 =>
              \A a \in CompleteArgs :
                  LET i == ctx.current_step
                      r == complete_step(ctx, a[1], a[2], callerDict)
                  IN /\ r.res = "ok"
                     /\ r.cd = callerDict
                     /\ r.ctx.current_step = 0
                     /\ r.ctx.steps[i].outcomes =
                            IF a[1] # None /\ a[1][1] # {}
                            THEN a[1][1] ELSE ctx.steps[i].outcomes
                     /\ r.ctx.steps[i].reasoning =
                            IF a[2] # None /\ a[2][1] # ""
                            THEN a[2] ELSE ctx.steps[i].reasoning
                     /\ r.ctx = [ctx EXCEPT !.current_step = 0,
                                            !.steps[i].outcomes = r.ctx.steps[i].outcomes,
                                            !.steps[i].reasoning = r.ctx.steps[i].reasoning]
       /\ (last'.op = "complete_step" /\ last'.res = "ok") =>
              /\ ctx.current_step # 0
              /\ \E a \in CompleteArgs :
                     ctx' = complete_step(ctx, a[1], a[2], callerDict).ctx]_vars

C25_Witness ==
    /\ last.op = "complete_step"
    /\ last.res = "ok"
    /\ last.open = 2
    /\ ctx.current_step = 0
    /\ ctx.steps[1].outcomes = {<<"candidates_found", "1">>}
    /\ ctx.steps[1].reasoning = Some("Found 1 candidate products")
    /\ ctx.steps[2].candidates # <<>>
    /\ ctx.steps[2].outcomes = {}
    /\ ctx.steps[2].reasoning = None

\* C26: start_step succeeds whether or not a step is open, leaves every
\* step the context already has as it was, at its position, and makes the
\* new step the open one; an add_candidates, add_filter or complete_step
\* made afterwards changes no step but the open one, as serialized.
C26_DisplacedStepUntouched ==
    [][/\ last'.op = "start_step" =>
              /\ last'.res = "ok"
              /\ ctx'.current_step = Len(ctx.steps) + 1
              /\ \A i \in 1..Len(ctx.steps) :
                     to_dict(ctx'.steps[i], callerDict') = to_dict(ctx.steps[i], callerDict)
       /\ last'.op \in {"add_candidates", "add_filter", "complete_step"} =>
              \A i \in 1..Len(ctx.steps) :
                  i # ctx.current_step =>
                      to_dict(ctx'.steps[i], callerDict') = to_dict(ctx.steps[i], callerDict)]_vars

\* C27: a Trail saved through a durable backend is returned by get and is
\* in every list_all of a backend instance constructed afterwards over the
\* same location, whose in-memory mapping is empty; a save through a
\* memory-only backend writes no file, and the Trail is not found on a new
\* instance nor on another instance that did not have the id before. A get
\* that returns a Trail no instance holds in memory returns the file's.
C27_DurableAcrossInstances ==
    /\ \A s \in 1..Len(storages) :
           LET r == save(storages[s], files, ctx, callerDict)
               id == ctx.execution_id
               later == XRayStorage(storages[s].storage_path)
           IN r.res = "ok" =>
                  IF storages[s].storage_path # None
                  THEN LET doc == json_dump(get_trail(ctx, callerDict), callerDict)
                       IN /\ later.in_memory = <<>>
                          /\ get(later, r.files, id, callerDict)
                                 = [res |-> "ok", val |-> Some(doc)]
                          /\ \A glob \in Glob(r.files) :
                                 doc \in Range(list_all(later, glob, None, callerDict).val)
                  ELSE /\ r.files = files
                       /\ \A p \in PathArgs :
                              ~FileExists(files, id) =>
                                  get(XRayStorage(p), r.files, id, callerDict)
                                      = [res |-> "ok", val |-> None]
                       /\ \A t \in 1..Len(storages) :
                              (/\ t # s
                               /\ ~MemHas(storages[t].in_memory, id)
                               /\ ~FileExists(files, id)) =>
                                  get(storages[t], r.files, id, callerDict)
                                      = [res |-> "ok", val |-> None]
    /\ (/\ last.op = "get"
        /\ last.res = "ok"
        /\ last.val # None
        /\ \A s \in 1..Len(storages) :
               ~MemHas(storages[s].in_memory, last.val[1].execution_id)) =>
           /\ FileExists(files, last.val[1].execution_id)
           /\ last.val[1] = FileContent(files, last.val[1].execution_id).doc

\* a backend made after a restart returns a Trail with a step: the one a
\* backend of the previous process saved
C27_Witness ==
    /\ last.op = "get"
    /\ last.res = "ok"
    /\ last.val # None
    /\ last.val[1].steps # <<>>
    /\ Len(storages) = 1
    /\ storages[1].storage_path # None
    /\ storages[1].in_memory = <<>>

\* C28: a start_step, add_candidates, add_filter or complete_step on a
\* context leaves what the backend holds where it was: the files are the
\* same, and get of every id and list_all, on the backend and on an
\* instance made later over its location, return Trails with the steps and
\* the total_steps they returned before the call.
C28_SavedTrailIsSnapshot ==
    [][last'.op \in {"start_step", "add_candidates", "add_filter", "complete_step"} =>
           /\ files' = files
           /\ \A s \in 1..Len(storages) :
                  /\ \A id \in GetArgs, st \in {s, 0} :
                         LET a == get(IF st = 0 THEN XRayStorage(storages[s].storage_path)
                                      ELSE storages[s], files, id, callerDict)
                             b == get(IF st = 0 THEN XRayStorage(storages'[s].storage_path)
                                      ELSE storages'[s], files', id, callerDict')
                         IN /\ b.res = a.res
                            /\ (b.val = None) = (a.val = None)
                            /\ a.val # None =>
                                   /\ b.val[1].steps = a.val[1].steps
                                   /\ b.val[1].total_steps = a.val[1].total_steps
                  /\ \A glob \in Glob(files) :
                         LET a == list_all(storages[s], glob, None, callerDict).val
                             b == list_all(storages'[s], glob, None, callerDict').val
                         IN /\ Len(b) = Len(a)
                            /\ \A i \in 1..Len(a) :
                                   /\ b[i].steps = a[i].steps
                                   /\ b[i].total_steps = a[i].total_steps]_vars

\* the context was saved with a step that had no candidates; add_candidates
\* with a description has since changed the step and the caller's dict
C28_Witness ==
    /\ last.op = "add_candidates"
    /\ last.res = "ok"
    /\ MemHas(storages[1].in_memory, ctx.execution_id)
    /\ InMemory(1, ctx.execution_id).total_steps = 1
    /\ InMemory(1, ctx.execution_id).steps[1].candidates = <<>>
    /\ ctx.steps[1].candidates = <<P1>>
    /\ ctx.steps[1].metadata = Shared
    /\ callerDict # InitCallerDict

\* C29: after every save, get, list_all and clear on the one durable
\* backend of a process, with nothing else writing to the location and
\* payloads json gives back as they were, every id of the in-memory mapping
\* has a file that parses and holds the Trail the in-memory mapping holds.
C29_TiersHoldSameTrail ==
    last.op \in {"save", "get", "list_all", "clear"} =>
        \A s \in 1..Len(storages) :
            storages[s].storage_path # None =>
                \A i \in 1..Len(storages[s].in_memory) :
                    LET id == storages[s].in_memory[i].key
                    IN /\ FileExists(files, id)
                       /\ FileContent(files, id).ok
                       /\ FileContent(files, id).doc = InMemory(s, id)

\* C30: an add_candidates, add_filter or complete_step made while no step
\* is open raises ValueError and leaves the context as it was: steps, open
\* step, execution_id, created_at and metadata, by reference and by content;
\* and ValueError is raised by these operations only, and only then.
C30_FailedOpLeavesContext ==
    [][/\ ctx.current_step = 0 =>
              /\ \A a \in CandidateArgs :
                     LET r == add_candidates(ctx, a[1], a[2], callerDict)
                     IN r.res = "ValueError" /\ r.ctx = ctx /\ r.cd = callerDict
              /\ \A f \in FilterArgs :
                     LET r == add_filter(ctx, f, callerDict)
                     IN r.res = "ValueError" /\ r.ctx = ctx /\ r.cd = callerDict
              /\ \A a \in CompleteArgs :
                     LET r == complete_step(ctx, a[1], a[2], callerDict)
                     IN r.res = "ValueError" /\ r.ctx = ctx /\ r.cd = callerDict
       /\ last'.res = "ValueError" =>
              /\ last'.op \in {"add_candidates", "add_filter", "complete_step"}
              /\ ctx.current_step = 0
              /\ ctx' = ctx
              /\ callerDict' = callerDict
              /\ TrailValue(get_trail(ctx', callerDict'), callerDict')
                     = TrailValue(get_trail(ctx, callerDict), callerDict)]_vars

\* add_candidates has failed on a context whose two steps are closed
C30_Witness ==
    /\ last.op = "add_candidates"
    /\ last.res = "ValueError"
    /\ ctx.current_step = 0
    /\ Len(ctx.steps) = 2
    /\ ctx.steps[1].candidates # <<>>
    /\ ctx.steps[2].outcomes # {}

\* C31: a get or a list_all leaves the in-memory mapping of every backend
\* and the files of the location as they were; so for an id that is not in
\* a durable backend's in-memory mapping, get answers from the file as it
\* is now: its content, a parse failure if it was garbled, None if there
\* is none.
C31_ReadsChangeNothing ==
    [][/\ last'.op \in {"get", "list_all"} =>
              /\ storages' = storages
              /\ files' = files
       /\ \A s \in 1..Len(storages'), id \in UsedIds' \cup {1} :
              (/\ storages'[s].storage_path # None
               /\ ~MemHas(storages'[s].in_memory, id)) =>
                  get(storages'[s], files', id, callerDict') =
                      IF ~FileExists(files', id)
                      THEN [res |-> "ok", val |-> None]
                      ELSE IF FileContent(files', id).ok
                      THEN [res |-> "ok", val |-> Some(FileContent(files', id).doc)]
                      ELSE [res |-> "JSONDecodeError", val |-> None]]_vars

\* a get on a durable backend was served from a file another process wrote
\* after the backend had made a save of its own; the id is still not in the
\* backend's in-memory mapping
C31_Witness ==
    /\ last.op = "get"
    /\ last.res = "ok"
    /\ last.val # None
    /\ Len(storages) = 1
    /\ storages[1].storage_path # None
    /\ storages[1].in_memory # <<>>
    /\ ~MemHas(storages[1].in_memory, last.val[1].execution_id)
    /\ last.val[1] = FileContent(files, last.val[1].execution_id).doc
    /\ last.val[1].created_at = isoformat(now(1))

====
